---- MODULE Spec2Model ----
(***************************************************************************)
(* A model of the bidirectional type checker of src/src/main.ts.           *)
(*                                                                         *)
(* The checker is a recursive descent over an immutable expression tree.   *)
(* The model runs it as a stack machine: one frame per active call of      *)
(* infer(ctx, expr) (which dispatches to expr.infer(ctx)) or of            *)
(* check(ctx, expr, expectedType), one action per function of the source,  *)
(* one step per stretch of code between two calls.  Contexts are JS Map    *)
(* objects, so they live in a heap and frames hold references to them:     *)
(* whether extend() copies or mutates is visible in the model.             *)
(***************************************************************************)
EXTENDS Integers, Sequences, FiniteSets, TLC

(***************************************************************************)
(* Bounds.                                                                 *)
(***************************************************************************)
\* number of top-level calls made, one after the other, on the same context
\* object and the same tree
MaxCalls == 2
\* number of arrows in the types the type-equality specification compares
MaxArrows == 2

(***************************************************************************)
(* Types (main.ts:1-3).  A primitive type is a JS string, a function type  *)
(* a JS object {tArg, tRet}.  A string is modelled as a record with the    *)
(* one field "name", so that typeof distinguishes the two shapes.          *)
(***************************************************************************)
Number == [name |-> "Number"]
Boolean == [name |-> "Boolean"]
FunType(a, r) == [tArg |-> a, tRet |-> r]

\* the JS value undefined: Map.get of a missing key, the value of a void call
Undefined == [name |-> "undefined"]

\* typeof t === "string"
IsString(t) == DOMAIN t = {"name"}
\* typeof t === "object"
IsObject(t) == DOMAIN t = {"tArg", "tRet"}

\* t1 === t2 where at least one side is a string: strings compare by value,
\* a string is never === an object
StrictEqual(t1, t2) ==
  /\ IsString(t1)
  /\ IsString(t2)
  /\ t1.name = t2.name

\* sameType that compares the arguments of two function types only
RECURSIVE sameTypeOfArguments(_, _)
sameTypeOfArguments(t1, t2) ==
  IF IsString(t1) \/ IsString(t2)
    THEN StrictEqual(t1, t2)
    ELSE sameTypeOfArguments(t1.tArg, t2.tArg)

RECURSIVE sameType(_, _)
sameType(t1, t2) ==
  IF IsString(t1) \/ IsString(t2)
    THEN StrictEqual(t1, t2)
    ELSE sameType(t1.tArg, t2.tArg) /\ sameType(t1.tRet, t2.tRet)

\* JSON.stringify of a type, as the error messages embed it
RECURSIVE stringify(_)
stringify(t) ==
  IF IsString(t)
    THEN "\"" \o t.name \o "\""
    ELSE "{\"tArg\":" \o stringify(t.tArg) \o ",\"tRet\":" \o stringify(t.tRet) \o "}"

(***************************************************************************)
(* Contexts (main.ts:4-28).  A Map<string, Type> is a function from the    *)
(* names to their type, Undefined for a name that is not a key.  The heap  *)
(* is the sequence of the Map objects allocated so far; a context value in *)
(* the program is a reference: an index of the heap.                       *)
(***************************************************************************)
Names == {"x", "f"}

\* extend without the set: return new Map(ctx)
extendWithoutSet(h, ctx, x, t) ==
  [heap |-> Append(h, h[ctx]), ref |-> Len(h) + 1]

\* extend without the copy: ctx.set(x, t); return ctx
extendInPlace(h, ctx, x, t) ==
  [heap |-> [h EXCEPT ![ctx] = [h[ctx] EXCEPT ![x] = t]], ref |-> ctx]

\* extend(ctx, x, t): new Map(ctx), set on the copy, return the copy
extend(h, ctx, x, t) ==
  [heap |-> Append(h, [h[ctx] EXCEPT ![x] = t]), ref |-> Len(h) + 1]

\* lookup(ctx, x): ctx.get(x); Undefined is the case in which lookup throws,
\* and VarInfer, its only caller, does the throw
lookup(h, ctx, x) == h[ctx][x]

(***************************************************************************)
(* Expression nodes (main.ts:72-323): constructors of the eleven classes.  *)
(***************************************************************************)
Num == [kind |-> "Num"]
Bool == [kind |-> "Bool"]
Var(x) == [kind |-> "Var", x |-> x]
Let(x, e1, e2) == [kind |-> "Let", x |-> x, e1 |-> e1, e2 |-> e2]
Plus(l, r) == [kind |-> "Plus", left |-> l, right |-> r]
Or(l, r) == [kind |-> "Or", left |-> l, right |-> r]
Eq(l, r) == [kind |-> "Eq", left |-> l, right |-> r]
If(c, th, el) == [kind |-> "If", condition |-> c, thenBranch |-> th, elseBranch |-> el]
Fun(x, tx, body) == [kind |-> "Fun", x |-> x, tx |-> tx, body |-> body]
Call(func, arg) == [kind |-> "Call", func |-> func, arg |-> arg]
LetFun(f, x, tx, tRet, functionBody, letBody) ==
  [kind |-> "LetFun", f |-> f, x |-> x, tx |-> tx, tRet |-> tRet,
   functionBody |-> functionBody, letBody |-> letBody]

(***************************************************************************)
(* Error messages (main.ts:13, 55, 281).                                   *)
(***************************************************************************)
UnboundVariableMessage(x) == "Unbound variable: " \o x
TypeMismatchMessage(expectedType, inferredType) ==
  "Type mismatch: expected a " \o stringify(expectedType)
    \o ", but got a " \o stringify(inferredType)
NotAFunctionMessage(tFun) ==
  "Type mismatch: expected a function, but got a " \o stringify(tFun)

(***************************************************************************)
(* Inputs: the contexts, trees and top-level calls the model is run on.    *)
(***************************************************************************)
NtoN == FunType(Number, Number)
BtoB == FunType(Boolean, Boolean)

\* the types with exactly n arrows, and with at most n
RECURSIVE TypesWith(_)
TypesWith(n) ==
  IF n = 0
    THEN {Number, Boolean}
    ELSE UNION {{FunType(a, r) : a \in TypesWith(k), r \in TypesWith(n - 1 - k)} :
                k \in 0..(n - 1)}
Types == UNION {TypesWith(n) : n \in 0..MaxArrows}

\* the types a caller's context binds a name to
CtxTypes == {Number, Boolean, NtoN}
Contexts == [Names -> CtxTypes \cup {Undefined}]
empty == [n \in Names |-> Undefined]

\* the annotations written on Fun and LetFun nodes
AnnTypes == {Number, Boolean}

Literals == {Num, Bool}
Vars == {Var(n) : n \in Names}
Atoms == Literals \cup Vars

\* every node class over atomic children
Flat ==
  Atoms
  \cup {Let(n, a, b) : n \in Names, a \in Atoms, b \in Atoms}
  \cup {Plus(a, b) : a \in Atoms, b \in Atoms}
  \cup {Or(a, b) : a \in Atoms, b \in Atoms}
  \cup {Eq(a, b) : a \in Atoms, b \in Atoms}
  \cup {If(c, a, b) : c \in Atoms, a \in Atoms, b \in Atoms}
  \cup {Fun(n, tx, a) : n \in Names, tx \in AnnTypes, a \in Atoms}
  \cup {Call(a, b) : a \in Atoms, b \in Atoms}
  \cup {LetFun(f, n, tx, tr, a, b) : f \in Names, n \in Names, tx \in AnnTypes,
                                     tr \in AnnTypes, a \in Atoms, b \in Vars}

\* a binder whose body reads the name it binds
Binders ==
  {Let(n, a, Var(n)) : n \in Names, a \in Atoms}
  \cup {Fun(n, tx, Var(n)) : n \in Names, tx \in AnnTypes}
  \cup {LetFun(f, n, tx, tx, Var(n), Var(f)) : f \in Names, n \in Names, tx \in AnnTypes}

\* a binder as the first child, a variable as a sibling inferred after it;
\* a variable, then a binder as its sibling
ScopeTrees ==
  {Plus(b, v) : b \in Binders, v \in Vars}
  \cup {Eq(b, v) : b \in Binders, v \in Vars}
  \cup {Call(b, v) : b \in Binders, v \in Vars}
  \cup {Eq(v, b) : b \in Binders, v \in Vars}

\* a function that calls itself on its parameter, called on a literal
RecTrees ==
  {LetFun(f, n, tx, tr, Call(Var(f), Var(n)), Call(Var(f), a)) :
     f \in Names, n \in Names, tx \in AnnTypes, tr \in AnnTypes, a \in Literals}

\* the body of the 'letfun' test (main.test.ts:123-130), sumTo10 written f
SumTo10Body ==
  If(Eq(Var("x"), Num), Var("x"),
     Plus(Var("x"), Call(Var("f"), Plus(Var("x"), Num))))

\* the trees of the test suite (main.test.ts) that are in none of the above
TestTrees ==
  { LetFun("f", "x", Number, Number, SumTo10Body, Call(Var("f"), Num)),
    LetFun("f", "x", Number, Number, Bool, Call(Var("f"), Num)) }

\* a Let whose body is a Let of the same name that reads it
ShadowTrees == {Let(n, a, Let(n, b, Var(n))) : n \in Names, a \in Atoms, b \in Atoms}

\* a function applied on the spot
CallTrees == {Call(Fun(n, tx, a), b) : n \in Names, tx \in AnnTypes, a \in Atoms, b \in Atoms}

\* the trees a caller passes to check
CheckTrees ==
  Atoms
  \cup {Fun(n, tx, a) : n \in Names, tx \in AnnTypes, a \in Atoms}
  \cup {Plus(Var("x"), Num), Call(Var("f"), Var("x")), Let("x", Num, Var("x"))}

\* an input: the caller's context, the tree, and the types the caller may
\* pass to check as expectedType
Input(c, e, ts) == [ctx |-> c, expr |-> e, expectedTypes |-> ts]

Inputs ==
  {Input(c, e, {}) : c \in Contexts, e \in Flat \cup ScopeTrees \cup ShadowTrees \cup CallTrees
                                      \cup RecTrees \cup TestTrees}
  \cup {Input(c, e, {Number, NtoN, BtoB}) : c \in Contexts, e \in CheckTrees}
  \cup {Input([empty EXCEPT !["x"] = t], Var("x"), Types) : t \in Types}

(***************************************************************************)
(* State.                                                                  *)
(***************************************************************************)
VARIABLES
  expr,           \* the expression tree the caller built
  expectedTypes,  \* the types the caller may pass to check
  heap,           \* the Map objects; heap[1] is the caller's context
  stack,          \* the active calls, innermost last
  ret,            \* the value the last finished call returned
  outcomes,       \* what each finished top-level call returned or threw
  visits          \* the nodes infer was called on in this top-level call

vars == <<expr, expectedTypes, heap, stack, ret, outcomes, visits>>

\* the caller's context object
ctx == 1

\* the node object of the tree: the fields that lead to it from the root
root == <<>>
Child(node, field) == Append(node, field)

\* a new activation of infer(c, e) or check(c, e, expectedType); received
\* records the bindings of c at the time of the call, node the object e is
Frame(fn, h, c, e, expectedType, node) ==
  [fn |-> fn, expr |-> e, ctx |-> c, pc |-> 0, t |-> Undefined,
   expectedType |-> expectedType, received |-> h[c], node |-> node]

\* the outcome of the top-level call whose activation is frame
Returned(frame, v) ==
  [fn |-> frame.fn, expectedType |-> frame.expectedType,
   threw |-> FALSE, value |-> v, message |-> ""]
Threw(frame, message) ==
  [fn |-> frame.fn, expectedType |-> frame.expectedType,
   threw |-> TRUE, value |-> Undefined, message |-> message]

Running == stack # <<>>
Top == stack[Len(stack)]
InferAt(kind) == Running /\ Top.fn = "infer" /\ Top.expr.kind = kind

\* the running function calls callee and resumes at pc when it returns; t is
\* the local it keeps across the call
CallFrom(pc, t, callee) ==
  /\ stack' = Append([stack EXCEPT ![Len(stack)].pc = pc, ![Len(stack)].t = t], callee)
  /\ visits' = IF callee.fn = "infer" THEN Append(visits, callee.node) ELSE visits

\* return v to the caller; the return of the outermost call ends the
\* top-level call
Return(v) ==
  /\ stack' = SubSeq(stack, 1, Len(stack) - 1)
  /\ ret' = v
  /\ outcomes' = IF Len(stack) = 1
                   THEN Append(outcomes, Returned(stack[1], v))
                   ELSE outcomes
  /\ UNCHANGED visits

\* throw Error(message): nothing catches it, every active call is abandoned
Throw(message) ==
  /\ stack' = <<>>
  /\ ret' = Undefined
  /\ outcomes' = Append(outcomes, Threw(stack[1], message))
  /\ UNCHANGED visits

Init ==
  /\ \E i \in Inputs :
       /\ expr = i.expr
       /\ expectedTypes = i.expectedTypes
       /\ heap = <<i.ctx>>
  /\ stack = <<>>
  /\ ret = Undefined
  /\ outcomes = <<>>
  /\ visits = <<>>

(***************************************************************************)
(* The caller: a test or host calling infer or check on its context and    *)
(* its tree.  It makes MaxCalls calls: it repeats a call, or checks the    *)
(* tree against a type after inferring it.                                 *)
(***************************************************************************)
Idle == ~Running /\ Len(outcomes) < MaxCalls
Last == outcomes[Len(outcomes)]

CallerInfer ==
  /\ Idle
  /\ outcomes # <<>> => Last.fn = "infer"
  /\ stack' = <<Frame("infer", heap, ctx, expr, Undefined, root)>>
  /\ visits' = <<root>>
  /\ ret' = Undefined
  /\ UNCHANGED <<expr, expectedTypes, heap, outcomes>>

CallerCheck ==
  /\ Idle
  /\ \E expectedType \in expectedTypes :
       /\ outcomes # <<>> => Last.fn = "infer" \/ Last.expectedType = expectedType
       /\ stack' = <<Frame("check", heap, ctx, expr, expectedType, root)>>
  /\ visits' = <<>>
  /\ ret' = Undefined
  /\ UNCHANGED <<expr, expectedTypes, heap, outcomes>>

(***************************************************************************)
(* check (main.ts:47-57).                                                  *)
(***************************************************************************)
\* check that reports a mismatch with the two types exchanged
checkReportingSwapped ==
  /\ Running
  /\ Top.fn = "check"
  /\ \/ /\ Top.pc = 0
        /\ CallFrom(1, Undefined, Frame("infer", heap, Top.ctx, Top.expr, Undefined, Top.node))
        /\ UNCHANGED <<ret, outcomes>>
     \/ /\ Top.pc = 1
        /\ LET inferredType == ret
           IN IF ~sameType(Top.expectedType, inferredType)
                THEN Throw(TypeMismatchMessage(inferredType, Top.expectedType))
                ELSE Return(Undefined)
  /\ UNCHANGED <<expr, expectedTypes, heap>>

check ==
  /\ Running
  /\ Top.fn = "check"
  /\ \/ /\ Top.pc = 0
        /\ CallFrom(1, Undefined, Frame("infer", heap, Top.ctx, Top.expr, Undefined, Top.node))
        /\ UNCHANGED <<ret, outcomes>>
     \/ /\ Top.pc = 1
        /\ LET inferredType == ret
           IN IF ~sameType(Top.expectedType, inferredType)
                THEN Throw(TypeMismatchMessage(Top.expectedType, inferredType))
                ELSE Return(Undefined)
  /\ UNCHANGED <<expr, expectedTypes, heap>>

(***************************************************************************)
(* The infer methods of the node classes (main.ts:72-323), each entered    *)
(* through infer(ctx, expr) (main.ts:40-42).                               *)
(***************************************************************************)
NumInfer ==
  /\ InferAt("Num")
  /\ Return(Number)
  /\ UNCHANGED <<expr, expectedTypes, heap>>

BoolInfer ==
  /\ InferAt("Bool")
  /\ Return(Boolean)
  /\ UNCHANGED <<expr, expectedTypes, heap>>

\* Var.infer whose error names the value found, undefined, for the variable
VarInferReportingValue ==
  /\ InferAt("Var")
  /\ LET t == lookup(heap, Top.ctx, Top.expr.x)
     IN IF t = Undefined
          THEN Throw(UnboundVariableMessage(t.name))
          ELSE Return(t)
  /\ UNCHANGED <<expr, expectedTypes, heap>>

VarInfer ==
  /\ InferAt("Var")
  /\ LET t == lookup(heap, Top.ctx, Top.expr.x)
     IN IF t = Undefined
          THEN Throw(UnboundVariableMessage(Top.expr.x))
          ELSE Return(t)
  /\ UNCHANGED <<expr, expectedTypes, heap>>

LetInfer ==
  /\ InferAt("Let")
  /\ \/ /\ Top.pc = 0
        /\ CallFrom(1, Undefined, Frame("infer", heap, Top.ctx, Top.expr.e1, Undefined, Child(Top.node, "e1")))
        /\ UNCHANGED <<heap, ret, outcomes>>
     \/ /\ Top.pc = 1
        /\ LET t1 == ret
               extended == extend(heap, Top.ctx, Top.expr.x, t1)
           IN /\ heap' = extended.heap
              /\ CallFrom(2, t1, Frame("infer", extended.heap, extended.ref, Top.expr.e2, Undefined, Child(Top.node, "e2")))
        /\ UNCHANGED <<ret, outcomes>>
     \/ /\ Top.pc = 2
        /\ Return(ret)
        /\ UNCHANGED heap
  /\ UNCHANGED <<expr, expectedTypes>>

\* Plus.infer that infers the right operand without checking it
PlusInferUncheckedRight ==
  /\ InferAt("Plus")
  /\ \/ /\ Top.pc = 0
        /\ CallFrom(1, Undefined, Frame("check", heap, Top.ctx, Top.expr.left, Number, Child(Top.node, "left")))
        /\ UNCHANGED <<ret, outcomes>>
     \/ /\ Top.pc = 1
        /\ CallFrom(2, Undefined, Frame("infer", heap, Top.ctx, Top.expr.right, Undefined, Child(Top.node, "right")))
        /\ UNCHANGED <<ret, outcomes>>
     \/ /\ Top.pc = 2
        /\ Return(Number)
  /\ UNCHANGED <<expr, expectedTypes, heap>>

PlusInfer ==
  /\ InferAt("Plus")
  /\ \/ /\ Top.pc = 0
        /\ CallFrom(1, Undefined, Frame("check", heap, Top.ctx, Top.expr.left, Number, Child(Top.node, "left")))
        /\ UNCHANGED <<ret, outcomes>>
     \/ /\ Top.pc = 1
        /\ CallFrom(2, Undefined, Frame("check", heap, Top.ctx, Top.expr.right, Number, Child(Top.node, "right")))
        /\ UNCHANGED <<ret, outcomes>>
     \/ /\ Top.pc = 2
        /\ Return(Number)
  /\ UNCHANGED <<expr, expectedTypes, heap>>

OrInfer ==
  /\ InferAt("Or")
  /\ \/ /\ Top.pc = 0
        /\ CallFrom(1, Undefined, Frame("check", heap, Top.ctx, Top.expr.left, Boolean, Child(Top.node, "left")))
        /\ UNCHANGED <<ret, outcomes>>
     \/ /\ Top.pc = 1
        /\ CallFrom(2, Undefined, Frame("check", heap, Top.ctx, Top.expr.right, Boolean, Child(Top.node, "right")))
        /\ UNCHANGED <<ret, outcomes>>
     \/ /\ Top.pc = 2
        /\ Return(Boolean)
  /\ UNCHANGED <<expr, expectedTypes, heap>>

\* Eq.infer that infers the right operand and checks the left against it
EqInferCheckingLeft ==
  /\ InferAt("Eq")
  /\ \/ /\ Top.pc = 0
        /\ CallFrom(1, Undefined, Frame("infer", heap, Top.ctx, Top.expr.right, Undefined, Child(Top.node, "right")))
        /\ UNCHANGED <<ret, outcomes>>
     \/ /\ Top.pc = 1
        /\ LET t == ret
           IN CallFrom(2, t, Frame("check", heap, Top.ctx, Top.expr.left, t, Child(Top.node, "left")))
        /\ UNCHANGED <<ret, outcomes>>
     \/ /\ Top.pc = 2
        /\ Return(Boolean)
  /\ UNCHANGED <<expr, expectedTypes, heap>>

EqInfer ==
  /\ InferAt("Eq")
  /\ \/ /\ Top.pc = 0
        /\ CallFrom(1, Undefined, Frame("infer", heap, Top.ctx, Top.expr.left, Undefined, Child(Top.node, "left")))
        /\ UNCHANGED <<ret, outcomes>>
     \/ /\ Top.pc = 1
        /\ LET t == ret
           IN CallFrom(2, t, Frame("check", heap, Top.ctx, Top.expr.right, t, Child(Top.node, "right")))
        /\ UNCHANGED <<ret, outcomes>>
     \/ /\ Top.pc = 2
        /\ Return(Boolean)
  /\ UNCHANGED <<expr, expectedTypes, heap>>

\* If.infer that infers the else branch without checking it against the then
\* branch
IfInferJoiningBranches ==
  /\ InferAt("If")
  /\ \/ /\ Top.pc = 0
        /\ CallFrom(1, Undefined, Frame("check", heap, Top.ctx, Top.expr.condition, Boolean, Child(Top.node, "condition")))
        /\ UNCHANGED <<ret, outcomes>>
     \/ /\ Top.pc = 1
        /\ CallFrom(2, Undefined, Frame("infer", heap, Top.ctx, Top.expr.thenBranch, Undefined, Child(Top.node, "thenBranch")))
        /\ UNCHANGED <<ret, outcomes>>
     \/ /\ Top.pc = 2
        /\ LET t == ret
           IN CallFrom(3, t, Frame("infer", heap, Top.ctx, Top.expr.elseBranch, Undefined, Child(Top.node, "elseBranch")))
        /\ UNCHANGED <<ret, outcomes>>
     \/ /\ Top.pc = 3
        /\ Return(Top.t)
  /\ UNCHANGED <<expr, expectedTypes, heap>>

\* If.infer that infers the then branch before it checks the condition
IfInferBranchesFirst ==
  /\ InferAt("If")
  /\ \/ /\ Top.pc = 0
        /\ CallFrom(1, Undefined, Frame("infer", heap, Top.ctx, Top.expr.thenBranch, Undefined, Child(Top.node, "thenBranch")))
        /\ UNCHANGED <<ret, outcomes>>
     \/ /\ Top.pc = 1
        /\ LET t == ret
           IN CallFrom(2, t, Frame("check", heap, Top.ctx, Top.expr.condition, Boolean, Child(Top.node, "condition")))
        /\ UNCHANGED <<ret, outcomes>>
     \/ /\ Top.pc = 2
        /\ CallFrom(3, Top.t, Frame("check", heap, Top.ctx, Top.expr.elseBranch, Top.t, Child(Top.node, "elseBranch")))
        /\ UNCHANGED <<ret, outcomes>>
     \/ /\ Top.pc = 3
        /\ Return(Top.t)
  /\ UNCHANGED <<expr, expectedTypes, heap>>

IfInfer ==
  /\ InferAt("If")
  /\ \/ /\ Top.pc = 0
        /\ CallFrom(1, Undefined, Frame("check", heap, Top.ctx, Top.expr.condition, Boolean, Child(Top.node, "condition")))
        /\ UNCHANGED <<ret, outcomes>>
     \/ /\ Top.pc = 1
        /\ CallFrom(2, Undefined, Frame("infer", heap, Top.ctx, Top.expr.thenBranch, Undefined, Child(Top.node, "thenBranch")))
        /\ UNCHANGED <<ret, outcomes>>
     \/ /\ Top.pc = 2
        /\ LET t == ret
           IN CallFrom(3, t, Frame("check", heap, Top.ctx, Top.expr.elseBranch, t, Child(Top.node, "elseBranch")))
        /\ UNCHANGED <<ret, outcomes>>
     \/ /\ Top.pc = 3
        /\ Return(Top.t)
  /\ UNCHANGED <<expr, expectedTypes, heap>>

FunInfer ==
  /\ InferAt("Fun")
  /\ \/ /\ Top.pc = 0
        /\ LET extended == extend(heap, Top.ctx, Top.expr.x, Top.expr.tx)
           IN /\ heap' = extended.heap
              /\ CallFrom(1, Undefined, Frame("infer", extended.heap, extended.ref, Top.expr.body, Undefined, Child(Top.node, "body")))
        /\ UNCHANGED <<ret, outcomes>>
     \/ /\ Top.pc = 1
        /\ LET tBody == ret
           IN Return(FunType(Top.expr.tx, tBody))
        /\ UNCHANGED heap
  /\ UNCHANGED <<expr, expectedTypes>>

\* Call.infer that returns the argument type of the callee
CallInferReturningArgument ==
  /\ InferAt("Call")
  /\ \/ /\ Top.pc = 0
        /\ CallFrom(1, Undefined, Frame("infer", heap, Top.ctx, Top.expr.func, Undefined, Child(Top.node, "func")))
        /\ UNCHANGED <<ret, outcomes>>
     \/ /\ Top.pc = 1
        /\ LET tFun == ret
           IN IF ~IsObject(tFun)
                THEN Throw(NotAFunctionMessage(tFun))
                ELSE /\ CallFrom(2, tFun, Frame("check", heap, Top.ctx, Top.expr.arg, tFun.tArg, Child(Top.node, "arg")))
                     /\ UNCHANGED <<ret, outcomes>>
     \/ /\ Top.pc = 2
        /\ Return(Top.t.tArg)
  /\ UNCHANGED <<expr, expectedTypes, heap>>

\* Call.infer that reports a callee that is no function as a mismatch with
\* a function type
CallInferCheckingCallee ==
  /\ InferAt("Call")
  /\ \/ /\ Top.pc = 0
        /\ CallFrom(1, Undefined, Frame("infer", heap, Top.ctx, Top.expr.func, Undefined, Child(Top.node, "func")))
        /\ UNCHANGED <<ret, outcomes>>
     \/ /\ Top.pc = 1
        /\ LET tFun == ret
           IN IF ~IsObject(tFun)
                THEN Throw(TypeMismatchMessage(NtoN, tFun))
                ELSE /\ CallFrom(2, tFun, Frame("check", heap, Top.ctx, Top.expr.arg, tFun.tArg, Child(Top.node, "arg")))
                     /\ UNCHANGED <<ret, outcomes>>
     \/ /\ Top.pc = 2
        /\ Return(Top.t.tRet)
  /\ UNCHANGED <<expr, expectedTypes, heap>>

CallInfer ==
  /\ InferAt("Call")
  /\ \/ /\ Top.pc = 0
        /\ CallFrom(1, Undefined, Frame("infer", heap, Top.ctx, Top.expr.func, Undefined, Child(Top.node, "func")))
        /\ UNCHANGED <<ret, outcomes>>
     \/ /\ Top.pc = 1
        /\ LET tFun == ret
           IN IF ~IsObject(tFun)
                THEN Throw(NotAFunctionMessage(tFun))
                ELSE /\ CallFrom(2, tFun, Frame("check", heap, Top.ctx, Top.expr.arg, tFun.tArg, Child(Top.node, "arg")))
                     /\ UNCHANGED <<ret, outcomes>>
     \/ /\ Top.pc = 2
        /\ Return(Top.t.tRet)
  /\ UNCHANGED <<expr, expectedTypes, heap>>

\* LetFun.infer that infers the let body under the context of the function
\* body
LetFunInferLeakingParameter ==
  /\ InferAt("LetFun")
  /\ LET tf == FunType(Top.expr.tx, Top.expr.tRet)
     IN \/ /\ Top.pc = 0
           /\ LET withF == extend(heap, Top.ctx, Top.expr.f, tf)
                  functionBodyContext == extend(withF.heap, withF.ref, Top.expr.x, Top.expr.tx)
              IN /\ heap' = functionBodyContext.heap
                 /\ CallFrom(1, Undefined,
                             Frame("check", functionBodyContext.heap, functionBodyContext.ref,
                                   Top.expr.functionBody, Top.expr.tRet, Child(Top.node, "functionBody")))
           /\ UNCHANGED <<ret, outcomes>>
        \/ /\ Top.pc = 1
           /\ LET withF == extend(heap, Top.ctx, Top.expr.f, tf)
                  letBodyContext == extend(withF.heap, withF.ref, Top.expr.x, Top.expr.tx)
              IN /\ heap' = letBodyContext.heap
                 /\ CallFrom(2, Undefined,
                             Frame("infer", letBodyContext.heap, letBodyContext.ref,
                                   Top.expr.letBody, Undefined, Child(Top.node, "letBody")))
           /\ UNCHANGED <<ret, outcomes>>
        \/ /\ Top.pc = 2
           /\ LET tLetBody == ret
              IN Return(tLetBody)
           /\ UNCHANGED heap
  /\ UNCHANGED <<expr, expectedTypes>>

\* LetFun.infer that checks the function body a second time, as one round of
\* a fixpoint iteration would
LetFunInferIterating ==
  /\ InferAt("LetFun")
  /\ LET tf == FunType(Top.expr.tx, Top.expr.tRet)
     IN \/ /\ Top.pc = 0
           /\ LET withF == extend(heap, Top.ctx, Top.expr.f, tf)
                  functionBodyContext == extend(withF.heap, withF.ref, Top.expr.x, Top.expr.tx)
              IN /\ heap' = functionBodyContext.heap
                 /\ CallFrom(3, Undefined,
                             Frame("check", functionBodyContext.heap, functionBodyContext.ref,
                                   Top.expr.functionBody, Top.expr.tRet, Child(Top.node, "functionBody")))
           /\ UNCHANGED <<ret, outcomes>>
        \/ /\ Top.pc = 3
           /\ LET withF == extend(heap, Top.ctx, Top.expr.f, tf)
                  functionBodyContext == extend(withF.heap, withF.ref, Top.expr.x, Top.expr.tx)
              IN /\ heap' = functionBodyContext.heap
                 /\ CallFrom(1, Undefined,
                             Frame("check", functionBodyContext.heap, functionBodyContext.ref,
                                   Top.expr.functionBody, Top.expr.tRet, Child(Top.node, "functionBody")))
           /\ UNCHANGED <<ret, outcomes>>
        \/ /\ Top.pc = 1
           /\ LET letBodyContext == extend(heap, Top.ctx, Top.expr.f, tf)
              IN /\ heap' = letBodyContext.heap
                 /\ CallFrom(2, Undefined,
                             Frame("infer", letBodyContext.heap, letBodyContext.ref,
                                   Top.expr.letBody, Undefined, Child(Top.node, "letBody")))
           /\ UNCHANGED <<ret, outcomes>>
        \/ /\ Top.pc = 2
           /\ LET tLetBody == ret
              IN Return(tLetBody)
           /\ UNCHANGED heap
  /\ UNCHANGED <<expr, expectedTypes>>

LetFunInfer ==
  /\ InferAt("LetFun")
  /\ LET tf == FunType(Top.expr.tx, Top.expr.tRet)
     IN \/ /\ Top.pc = 0
           /\ LET withF == extend(heap, Top.ctx, Top.expr.f, tf)
                  functionBodyContext == extend(withF.heap, withF.ref, Top.expr.x, Top.expr.tx)
              IN /\ heap' = functionBodyContext.heap
                 /\ CallFrom(1, Undefined,
                             Frame("check", functionBodyContext.heap, functionBodyContext.ref,
                                   Top.expr.functionBody, Top.expr.tRet, Child(Top.node, "functionBody")))
           /\ UNCHANGED <<ret, outcomes>>
        \/ /\ Top.pc = 1
           /\ LET letBodyContext == extend(heap, Top.ctx, Top.expr.f, tf)
              IN /\ heap' = letBodyContext.heap
                 /\ CallFrom(2, Undefined,
                             Frame("infer", letBodyContext.heap, letBodyContext.ref,
                                   Top.expr.letBody, Undefined, Child(Top.node, "letBody")))
           /\ UNCHANGED <<ret, outcomes>>
        \/ /\ Top.pc = 2
           /\ LET tLetBody == ret
              IN Return(tLetBody)
           /\ UNCHANGED heap
  /\ UNCHANGED <<expr, expectedTypes>>

Next ==
  \/ CallerInfer
  \/ CallerCheck
  \/ check
  \/ NumInfer
  \/ BoolInfer
  \/ VarInfer
  \/ LetInfer
  \/ PlusInfer
  \/ OrInfer
  \/ EqInfer
  \/ IfInfer
  \/ FunInfer
  \/ CallInfer
  \/ LetFunInfer

Spec == Init /\ [][Next]_vars

\* the steps of the type checker, without those of its caller
Run ==
  \/ check
  \/ NumInfer
  \/ BoolInfer
  \/ VarInfer
  \/ LetInfer
  \/ PlusInfer
  \/ OrInfer
  \/ EqInfer
  \/ IfInfer
  \/ FunInfer
  \/ CallInfer
  \/ LetFunInfer

\* infer and check are synchronous code on one thread: a call that has
\* started keeps running until it returns or throws
FairSpec == Spec /\ WF_vars(Run)

(***************************************************************************)
(* Vocabulary of the properties.                                           *)
(***************************************************************************)
\* the calls below the innermost one, each with the call it made
Calls == 1..(Len(stack) - 1)

\* the names frame p has bound for the call it is in the middle of: the
\* name of a Let or Fun during its body, the function and the parameter of
\* a LetFun during its function body, the function during its let body
Scoping(p) ==
  IF p.fn # "infer" THEN {}
  ELSE CASE p.expr.kind = "Let" /\ p.pc = 2 -> {p.expr.x}
         [] p.expr.kind = "Fun" /\ p.pc = 1 -> {p.expr.x}
         [] p.expr.kind = "LetFun" /\ p.pc = 1 -> {p.expr.f, p.expr.x}
         [] p.expr.kind = "LetFun" /\ p.pc = 2 -> {p.expr.f}
         [] OTHER -> {}

\* the names a node binds in some subtree of it
BoundBy(e) ==
  CASE e.kind \in {"Let", "Fun"} -> {e.x}
    [] e.kind = "LetFun" -> {e.f, e.x}
    [] OTHER -> {}

\* the type an atom has under bindings c; Undefined when it has none
AtomType(c, a) ==
  CASE a.kind = "Num" -> Number
    [] a.kind = "Bool" -> Boolean
    [] a.kind = "Var" -> c[a.x]

\* the finished top-level calls of infer
Inferred == {k \in DOMAIN outcomes : outcomes[k].fn = "infer"}
Checked == {k \in DOMAIN outcomes : outcomes[k].fn = "check"}

\* the tree (let x = e1 in x) + x of the test 'environment extension is
\* non-mutating', for any name and any atomic e1
IsLeakTree(e) ==
  /\ e.kind = "Plus"
  /\ e.left.kind = "Let"
  /\ e.left.e1 \in Atoms
  /\ e.left.e2 = Var(e.left.x)
  /\ e.right = Var(e.left.x)

(***************************************************************************)
(* C1: lexical scoping.                                                    *)
(***************************************************************************)
\* Every call a node makes for a child runs under the bindings the node
\* received, except for the names the node itself binds in that child:
\* whatever binders were inferred among the earlier children, nothing of
\* them is left.
SiblingsSeeReceived ==
  \A i \in Calls :
    \A n \in Names \ Scoping(stack[i]) :
      heap[stack[i + 1].ctx][n] = stack[i].received[n]

\* C1 as stated: scoping as above, and for x unbound in ctx and any e1,
\* infer(ctx, Plus(Let(x, e1, Var(x)), Var(x))) fails with
\* UnboundVariable(x).
C1_AsStated ==
  /\ SiblingsSeeReceived
  /\ \A k \in Inferred :
       IsLeakTree(expr) /\ heap[ctx][expr.right.x] = Undefined
         => /\ outcomes[k].threw
            /\ outcomes[k].message = UnboundVariableMessage(expr.right.x)

\* C1, amended: lexical scoping - a call for a subtree outside a binder's
\* body runs under the bindings the parent received; for x unbound in ctx
\* and e1 inferring to Number under ctx, Plus(Let(x, e1, Var(x)), Var(x))
\* fails with UnboundVariable(x); a sibling Var(x) inferred after a binder
\* of x reads the binding the parent received.
C1_LexicalScoping ==
  /\ SiblingsSeeReceived
  /\ \A k \in Inferred :
       /\ IsLeakTree(expr)
       /\ heap[ctx][expr.right.x] = Undefined
       /\ AtomType(heap[ctx], expr.left.e1) = Number
       => /\ outcomes[k].threw
          /\ outcomes[k].message = UnboundVariableMessage(expr.right.x)
  /\ \A i \in Calls :
       LET p == stack[i]
       IN /\ p.fn = "infer"
          /\ p.expr.kind \in {"Plus", "Eq", "Call"}
          /\ p.pc = 2
          /\ Top.fn = "infer"
          /\ Top.expr.kind = "Var"
          /\ Len(stack) = i + 2
          => lookup(heap, Top.ctx, Top.expr.x) = p.received[Top.expr.x]

\* the first child of a Plus, Eq or Call node
FirstChild(e) == IF e.kind = "Call" THEN e.func ELSE e.left

\* a sibling Var(x) is being inferred after a binder that rebound x, which
\* the parent's context binds, to another type
C1_Witness ==
  /\ Len(stack) >= 3
  /\ LET p == stack[Len(stack) - 2]
     IN /\ p.fn = "infer"
        /\ p.expr.kind \in {"Plus", "Eq", "Call"}
        /\ p.pc = 2
        /\ Top.fn = "infer"
        /\ Top.expr.kind = "Var"
        /\ Top.expr.x \in BoundBy(FirstChild(p.expr))
        /\ p.received[Top.expr.x] # Undefined
        /\ \E j \in DOMAIN heap : heap[j][Top.expr.x] \notin {Undefined, p.received[Top.expr.x]}

(***************************************************************************)
(* C2: the Let rule.                                                       *)
(***************************************************************************)
\* let x = a in let x = b in x, for atomic a and b
IsShadowTree(e) ==
  /\ e.kind = "Let"
  /\ e.e1 \in Atoms
  /\ e.e2.kind = "Let"
  /\ e.e2.x = e.x
  /\ e.e2.e1 \in Atoms
  /\ e.e2.e2 = Var(e.x)

\* the call a Let has made: e1 under the bindings received, e2 under these
\* with x rebound to the type kept for e1
LetPremises ==
  \A i \in Calls :
    LET p == stack[i]
        c == stack[i + 1]
    IN p.fn = "infer" /\ p.expr.kind = "Let"
       => /\ p.pc \in {1, 2}
          /\ c.fn = "infer"
          /\ p.pc = 1 => c.expr = p.expr.e1 /\ heap[c.ctx] = p.received
          /\ p.pc = 2 => /\ c.expr = p.expr.e2
                         /\ heap[c.ctx] = [p.received EXCEPT ![p.expr.x] = p.t]

\* the inner Let wins: the tree has the type of the inner bound expression
ShadowingOutcome ==
  \A k \in Inferred :
    IsShadowTree(expr) =>
      LET ta == AtomType(heap[ctx], expr.e1)
          tb == AtomType([heap[ctx] EXCEPT ![expr.x] = ta], expr.e2.e1)
      IN ta # Undefined /\ tb # Undefined
           => ~outcomes[k].threw /\ outcomes[k].value = tb

\* the type kept for e1 is the one its call returned, and the Let returns
\* what the call for e2 returned
LetSteps ==
  InferAt("Let") =>
    /\ Top.pc = 1 => stack'[Len(stack)].t = ret
    /\ Top.pc = 2 => /\ stack' = SubSeq(stack, 1, Len(stack) - 1)
                     /\ ret' = ret
                     /\ Len(stack) = 1 =>
                          outcomes' = Append(outcomes, Returned(Top, ret))

\* C2: infer(ctx, Let(x, e1, e2)) infers e1 under ctx itself, then returns
\* the type of e2 inferred under ctx with x rebound to e1's type; an inner
\* Let of the same name wins inside its body.
C2_LetRule == [](LetPremises /\ ShadowingOutcome) /\ [][LetSteps]_vars

\* a tree let x = a in let x = b in x was inferred, a and b of different
\* types, in a context that binds x
C2_Witness ==
  /\ IsShadowTree(expr)
  /\ Inferred # {}
  /\ ~outcomes[1].threw
  /\ heap[ctx][expr.x] # Undefined
  /\ outcomes[1].value # AtomType(heap[ctx], expr.e1)

(***************************************************************************)
(* C3: contexts are never mutated.                                         *)
(***************************************************************************)
\* the context of every active call has the bindings it had at the call
ActiveContextsIntact == \A i \in DOMAIN stack : heap[stack[i].ctx] = stack[i].received

\* no step changes a Map object that exists
HeapFrozen == \A r \in DOMAIN heap : r \in DOMAIN heap' /\ heap'[r] = heap[r]

\* the bindings a binder in the middle of a call for a body passes to it,
\* base being the bindings of the binder's own context
BodyBindings(p, base) ==
  LET tf == FunType(p.expr.tx, p.expr.tRet)
  IN CASE p.expr.kind = "Let" -> [base EXCEPT ![p.expr.x] = p.t]
       [] p.expr.kind = "Fun" -> [base EXCEPT ![p.expr.x] = p.expr.tx]
       [] p.expr.kind = "LetFun" /\ p.pc = 1 ->
            [[base EXCEPT ![p.expr.f] = tf] EXCEPT ![p.expr.x] = p.expr.tx]
       [] p.expr.kind = "LetFun" /\ p.pc = 2 -> [base EXCEPT ![p.expr.f] = tf]

\* a step of a binder that calls a body passes it a new Map object, whose
\* bindings are those of the binder's context with the bound names set
ExtendIsCopy ==
  Running /\ Len(stack') = Len(stack) + 1 /\ Scoping(stack'[Len(stack)]) # {}
    => LET c == stack'[Len(stack')]
       IN /\ c.ctx \notin DOMAIN heap
          /\ heap'[c.ctx] = BodyBindings(stack'[Len(stack)], heap[Top.ctx])

\* C3: extend returns a new context that maps x to t and agrees with ctx on
\* every other name, and leaves ctx as it was; after any infer or check,
\* returned or failed, the caller's ctx has the bindings it had before.
C3_NoMutation == []ActiveContextsIntact /\ [][HeapFrozen /\ ExtendIsCopy]_vars

\* a top-level call that extended the caller's context has failed
C3_Witness ==
  /\ ~Running
  /\ outcomes # <<>>
  /\ outcomes[1].threw
  /\ \E r \in DOMAIN heap : heap[r] # heap[ctx]

(***************************************************************************)
(* C4: check.                                                              *)
(***************************************************************************)
\* the caller inferred the tree in call j, then checked it against a type
\* in call k
InferredThenChecked(j, k) ==
  /\ j \in Inferred
  /\ k \in Checked
  /\ j < k

\* check against expectedType ends as infer ended: normally when infer
\* returned expectedType, with the mismatch of expectedType and the inferred
\* type when infer returned another type, with infer's error when it threw
CheckFollowsInfer ==
  \A j \in DOMAIN outcomes, k \in DOMAIN outcomes :
    InferredThenChecked(j, k) =>
      LET inferred == outcomes[j]
          checked == outcomes[k]
      IN /\ inferred.threw =>
              checked.threw /\ checked.message = inferred.message
         /\ ~inferred.threw /\ inferred.value = checked.expectedType =>
              ~checked.threw /\ checked.value = Undefined
         /\ ~inferred.threw /\ inferred.value # checked.expectedType =>
              /\ checked.threw
              /\ checked.message = TypeMismatchMessage(checked.expectedType, inferred.value)
              /\ checked.message # TypeMismatchMessage(inferred.value, checked.expectedType)

\* every activation of check, the ones made by the nodes included: it
\* infers its expression under its own context, then returns to its caller
\* when the type returned is expectedType and throws the mismatch otherwise
CheckSteps ==
  Running /\ Top.fn = "check" =>
    /\ Top.pc = 0 =>
         /\ Len(stack') = Len(stack) + 1
         /\ stack'[Len(stack')].fn = "infer"
         /\ stack'[Len(stack')].expr = Top.expr
         /\ stack'[Len(stack')].ctx = Top.ctx
    /\ Top.pc = 1 /\ ret = Top.expectedType =>
         /\ stack' = SubSeq(stack, 1, Len(stack) - 1)
         /\ ret' = Undefined
    /\ Top.pc = 1 /\ ret # Top.expectedType =>
         /\ stack' = <<>>
         /\ outcomes' = Append(outcomes,
                               Threw(stack[1], TypeMismatchMessage(Top.expectedType, ret)))

\* C4: check(ctx, e, expected) returns normally iff infer(ctx, e) returns a
\* type structurally equal to expected; on a different type it fails with
\* TypeMismatch(expected, inferred), in that order; an error of infer
\* propagates unchanged.
C4_Check == []CheckFollowsInfer /\ [][CheckSteps]_vars

\* a function was inferred, then checked against another function type:
\* the check failed
C4_Witness ==
  /\ InferredThenChecked(1, 2)
  /\ ~outcomes[1].threw
  /\ IsObject(outcomes[1].value)
  /\ IsObject(outcomes[2].expectedType)
  /\ outcomes[2].threw

(***************************************************************************)
(* C5: type equality.                                                      *)
(***************************************************************************)
\* check is about to compare its expectedType with the type inferred
Comparing == Running /\ Top.fn = "check" /\ Top.pc = 1

\* C5: sameType is structural equality - true iff the two types have the
\* same shape and, for functions, equal arguments and equal results at
\* every depth; a primitive never equals a function; the relation is
\* reflexive and symmetric.
C5_SameTypeStructural ==
  Comparing =>
    LET t1 == Top.expectedType
        t2 == ret
    IN /\ sameType(t1, t2) <=> t1 = t2
       /\ sameType(t1, t2) <=> sameType(t2, t1)
       /\ sameType(t1, t1)
       /\ sameType(t2, t2)
       /\ IsString(t1) /\ IsObject(t2) => ~sameType(t1, t2)
       /\ IsObject(t1) /\ IsObject(t2) =>
            (sameType(t1, t2) <=> sameType(t1.tArg, t2.tArg) /\ sameType(t1.tRet, t2.tRet))

\* two function types are compared that differ only in the result of their
\* result
C5_Witness ==
  /\ Comparing
  /\ IsObject(Top.expectedType)
  /\ IsObject(ret)
  /\ Top.expectedType.tArg = ret.tArg
  /\ IsObject(Top.expectedType.tRet)
  /\ IsObject(ret.tRet)
  /\ Top.expectedType.tRet.tArg = ret.tRet.tArg
  /\ Top.expectedType.tRet.tRet # ret.tRet.tRet

(***************************************************************************)
(* C6: a callee that is not a function.                                    *)
(***************************************************************************)
\* the types with at most one arrow
SmallTypes == TypesWith(0) \cup TypesWith(1)

\* the top-level call has just failed with message
Fails(message) ==
  /\ stack' = <<>>
  /\ outcomes' = Append(outcomes, Threw(stack[1], message))

\* message is the NotAFunction error of type t and of no other type, and is
\* no TypeMismatch and no UnboundVariable error
IsNotAFunctionOf(message, t) ==
  /\ message = NotAFunctionMessage(t)
  /\ \A u \in SmallTypes \ {t} : message # NotAFunctionMessage(u)
  /\ \A u \in SmallTypes, v \in SmallTypes : message # TypeMismatchMessage(u, v)
  /\ \A n \in Names : message # UnboundVariableMessage(n)

\* C6: when the callee of a Call infers to Number or Boolean, the Call
\* fails with NotAFunction carrying that type, an error distinct from
\* TypeMismatch and UnboundVariable.
C6_NotAFunction ==
  [][InferAt("Call") /\ Top.pc = 1 /\ ret \in {Number, Boolean}
       => /\ Fails(NotAFunctionMessage(ret))
          /\ IsNotAFunctionOf(outcomes'[Len(outcomes')].message, ret)]_vars

\* a Call nested in another node failed because its callee is a Boolean
C6_Witness ==
  /\ ~Running
  /\ outcomes # <<>>
  /\ outcomes[1].threw
  /\ outcomes[1].message = NotAFunctionMessage(Boolean)
  /\ expr.kind # "Call"

(***************************************************************************)
(* C7: the Call rule.                                                      *)
(***************************************************************************)
\* the call a Call has made: the callee under its own context, then the
\* argument checked under that context against the argument type of the
\* type kept for the callee
CallPremises ==
  \A i \in Calls :
    LET p == stack[i]
        c == stack[i + 1]
    IN p.fn = "infer" /\ p.expr.kind = "Call"
       => /\ p.pc \in {1, 2}
          /\ c.ctx = p.ctx
          /\ p.pc = 1 => c.fn = "infer" /\ c.expr = p.expr.func
          /\ p.pc = 2 => /\ IsObject(p.t)
                         /\ c.fn = "check"
                         /\ c.expr = p.expr.arg
                         /\ c.expectedType = p.t.tArg

\* the type kept for the callee is the one its call returned; the check of
\* the argument passes exactly on the callee's argument type and fails with
\* the mismatch of that type and the argument's otherwise; the Call returns
\* the callee's result type
CallSteps ==
  /\ InferAt("Call") /\ Top.pc = 1 /\ IsObject(ret) => stack'[Len(stack)].t = ret
  /\ InferAt("Call") /\ Top.pc = 2 =>
       /\ stack' = SubSeq(stack, 1, Len(stack) - 1)
       /\ ret' = Top.t.tRet
  /\ /\ Comparing
     /\ Len(stack) > 1
     /\ stack[Len(stack) - 1].expr.kind = "Call"
     => LET tFun == stack[Len(stack) - 1].t
        IN IF ret = tFun.tArg
             THEN stack' = SubSeq(stack, 1, Len(stack) - 1)
             ELSE Fails(TypeMismatchMessage(tFun.tArg, ret))

\* fun (x : tx) -> a applied to b, a and b atomic
IsCallTree(e) ==
  /\ e.kind = "Call"
  /\ e.func.kind = "Fun"
  /\ e.func.body \in Atoms
  /\ e.arg \in Atoms

\* (fun (x : tx) -> a)(b) has the type of a when b has type tx, and fails
\* with TypeMismatch(tx, type of b) when b has another type
CallOutcome ==
  \A k \in Inferred :
    IsCallTree(expr) =>
      LET tx == expr.func.tx
          tRet == AtomType([heap[ctx] EXCEPT ![expr.func.x] = tx], expr.func.body)
          tArg == AtomType(heap[ctx], expr.arg)
      IN tRet # Undefined /\ tArg # Undefined =>
           IF tArg = tx
             THEN ~outcomes[k].threw /\ outcomes[k].value = tRet
             ELSE /\ outcomes[k].threw
                  /\ outcomes[k].message = TypeMismatchMessage(tx, tArg)

\* C7: when the callee infers to Function(tArg, tRet), Call returns tRet
\* when the argument infers to a type equal to tArg and fails with
\* TypeMismatch(tArg, type of the argument) otherwise.
C7_CallRule == [](CallPremises /\ CallOutcome) /\ [][CallSteps]_vars

\* a function from Number to Boolean was applied to a Number
C7_Witness ==
  /\ IsCallTree(expr)
  /\ Inferred # {}
  /\ expr.func.tx = Number
  /\ ~outcomes[1].threw
  /\ outcomes[1].value = Boolean

(***************************************************************************)
(* C8: the LetFun rule.                                                    *)
(***************************************************************************)
\* the call a LetFun has made: the function body checked against tRet under
\* the bindings received with f set to the function type, then x to tx; the
\* let body inferred under the bindings received with f set
LetFunPremises ==
  \A i \in Calls :
    LET p == stack[i]
        c == stack[i + 1]
        tf == FunType(p.expr.tx, p.expr.tRet)
    IN p.fn = "infer" /\ p.expr.kind = "LetFun"
       => /\ p.pc \in {1, 2}
          /\ p.pc = 1 =>
               /\ c.fn = "check"
               /\ c.expr = p.expr.functionBody
               /\ c.expectedType = p.expr.tRet
               /\ heap[c.ctx] = [[p.received EXCEPT ![p.expr.f] = tf]
                                   EXCEPT ![p.expr.x] = p.expr.tx]
          /\ p.pc = 2 =>
               /\ c.fn = "infer"
               /\ c.expr = p.expr.letBody
               /\ heap[c.ctx] = [p.received EXCEPT ![p.expr.f] = tf]

\* in the let body the parameter x denotes what the context received binds
\* it to, or is unbound
ParameterNotInLetBody ==
  \A i \in Calls :
    LET p == stack[i]
    IN p.fn = "infer" /\ p.expr.kind = "LetFun" /\ p.pc = 2
       => heap[stack[i + 1].ctx][p.expr.x] = p.received[p.expr.x]

\* the same, for a parameter that is not named as the function is; one that
\* is denotes the function type in the let body
ParameterNotInLetBodyUnlessFunction ==
  \A i \in Calls :
    LET p == stack[i]
        bound == heap[stack[i + 1].ctx][p.expr.x]
    IN p.fn = "infer" /\ p.expr.kind = "LetFun" /\ p.pc = 2
       => IF p.expr.x # p.expr.f
            THEN bound = p.received[p.expr.x]
            ELSE bound = FunType(p.expr.tx, p.expr.tRet)

\* letfun f(x : tx): tRet -> f(x) in f(a), a a literal
IsRecTree(e) ==
  /\ e.kind = "LetFun"
  /\ e.functionBody = Call(Var(e.f), Var(e.x))
  /\ e.letBody.kind = "Call"
  /\ e.letBody.func = Var(e.f)
  /\ e.letBody.arg \in Literals

\* the self-recursive call typechecks, the tree has the type of the let
\* body; when f and x are one name, it denotes tx in the function body
RecursionOutcome ==
  \A k \in Inferred :
    IsRecTree(expr) =>
      LET tArg == AtomType(heap[ctx], expr.letBody.arg)
      IN IF expr.f = expr.x
           THEN /\ outcomes[k].threw
                /\ outcomes[k].message = NotAFunctionMessage(expr.tx)
           ELSE IF tArg = expr.tx
                  THEN ~outcomes[k].threw /\ outcomes[k].value = expr.tRet
                  ELSE /\ outcomes[k].threw
                       /\ outcomes[k].message = TypeMismatchMessage(expr.tx, tArg)

\* a function body of another type than tRet fails with the mismatch of
\* tRet and that type; the LetFun returns what the call for the let body
\* returned
LetFunSteps ==
  /\ InferAt("LetFun") /\ Top.pc = 2 =>
       /\ stack' = SubSeq(stack, 1, Len(stack) - 1)
       /\ ret' = ret
  /\ /\ Comparing
     /\ Len(stack) > 1
     /\ stack[Len(stack) - 1].expr.kind = "LetFun"
     => LET tRet == stack[Len(stack) - 1].expr.tRet
        IN IF ret = tRet
             THEN stack' = SubSeq(stack, 1, Len(stack) - 1)
             ELSE Fails(TypeMismatchMessage(tRet, ret))

\* C8 as stated, its part on the contexts: the function body is checked
\* against tRet under ctx extended with f, then x; the let body is inferred
\* under ctx extended with f only, so that x in it denotes whatever ctx
\* bound it to, or is unbound.
C8_AsStated == LetFunPremises /\ ParameterNotInLetBody /\ RecursionOutcome

\* C8, amended: the function body is checked against tRet under ctx
\* extended with f: Function(tx, tRet), then x: tx; the let body is
\* inferred under ctx extended with f only, so that x in it, unless it is
\* the name of f, denotes whatever ctx bound it to; the result is the type
\* of the let body; a function body of another type fails with
\* TypeMismatch(tRet, body type).
C8_LetFunRule ==
  /\ [](LetFunPremises /\ ParameterNotInLetBodyUnlessFunction /\ RecursionOutcome)
  /\ [][LetFunSteps]_vars

\* the let body of a LetFun whose parameter is not named as the function is
\* being inferred, in a context that binds the parameter to another type
\* than the annotation
C8_Witness ==
  /\ Len(stack) >= 2
  /\ LET p == stack[Len(stack) - 1]
     IN /\ p.fn = "infer"
        /\ p.expr.kind = "LetFun"
        /\ p.pc = 2
        /\ p.expr.x # p.expr.f
        /\ p.received[p.expr.x] \notin {Undefined, p.expr.tx}
        /\ Top.expr = Var(p.expr.x)

(***************************************************************************)
(* C9: determinism.                                                        *)
(***************************************************************************)
\* calls j and k of the caller are the same call
Repeated(j, k) ==
  /\ j < k
  /\ outcomes[j].fn = outcomes[k].fn
  /\ outcomes[j].expectedType = outcomes[k].expectedType

\* C9: two runs of infer(ctx, e), or of check(ctx, e, t), on the same
\* context and tree have the same outcome: the same type, or the same error
\* with the same payload.
C9_Deterministic ==
  \A j \in DOMAIN outcomes, k \in DOMAIN outcomes :
    Repeated(j, k) => outcomes[j] = outcomes[k]

\* a tree that reads a name, then rebinds it, was inferred twice in a
\* context that binds the name, and failed twice
C9_Witness ==
  /\ Len(outcomes) >= 2
  /\ Repeated(1, 2)
  /\ outcomes[1].fn = "infer"
  /\ expr.kind = "Eq"
  /\ expr.left.kind = "Var"
  /\ expr.left.x \in BoundBy(expr.right)
  /\ heap[ctx][expr.left.x] # Undefined
  /\ outcomes[2].threw

(***************************************************************************)
(* C10: the Var rule.                                                      *)
(***************************************************************************)
\* C10: infer(ctx, Var(x)) returns the type ctx binds to x when x is
\* bound, and fails with UnboundVariable carrying exactly the name x when
\* it is not.
C10_VarRule ==
  [][InferAt("Var") =>
       LET x == Top.expr.x
           bound == heap[Top.ctx][x]
       IN IF bound # Undefined
            THEN /\ stack' = SubSeq(stack, 1, Len(stack) - 1)
                 /\ ret' = bound
                 /\ \A k \in DOMAIN outcomes' \ DOMAIN outcomes :
                      outcomes'[k] = Returned(Top, bound)
            ELSE /\ Fails(UnboundVariableMessage(x))
                 /\ \A n \in Names \ {x} :
                      outcomes'[Len(outcomes')].message # UnboundVariableMessage(n)]_vars

\* the test 'unbound var': inferring Var("x") in a context that binds f
\* only failed, naming x
C10_Witness ==
  /\ expr = Var("x")
  /\ heap[ctx]["f"] # Undefined
  /\ Inferred # {}
  /\ outcomes[1].threw
  /\ outcomes[1].message = "Unbound variable: x"

(***************************************************************************)
(* C11: the Eq rule.                                                       *)
(***************************************************************************)
\* the caller of the check that is comparing is a node of this kind, in the
\* middle of its call number pc
ComparingFor(kind, pc) ==
  /\ Comparing
  /\ Len(stack) > 1
  /\ stack[Len(stack) - 1].expr.kind = kind
  /\ stack[Len(stack) - 1].pc = pc

\* the running call returns v to its caller
Returns(v) ==
  /\ stack' = SubSeq(stack, 1, Len(stack) - 1)
  /\ ret' = v
  /\ Len(stack) = 1 => outcomes' = Append(outcomes, Returned(Top, v))

\* the call an Eq has made: the left operand inferred, then the right
\* checked against the type kept for the left, both under its own context
EqPremises ==
  \A i \in Calls :
    LET p == stack[i]
        c == stack[i + 1]
    IN p.fn = "infer" /\ p.expr.kind = "Eq"
       => /\ p.pc \in {1, 2}
          /\ c.ctx = p.ctx
          /\ p.pc = 1 => c.fn = "infer" /\ c.expr = p.expr.left
          /\ p.pc = 2 => /\ c.fn = "check"
                         /\ c.expr = p.expr.right
                         /\ c.expectedType = p.t

\* the type kept is the one the left operand returned; the check of the
\* right passes on that type, of whatever shape, and fails with the mismatch
\* of the left type and the right type otherwise; the Eq returns Boolean
EqSteps ==
  /\ InferAt("Eq") /\ Top.pc = 1 => stack'[Len(stack)].t = ret
  /\ InferAt("Eq") /\ Top.pc = 2 => Returns(Boolean)
  /\ ComparingFor("Eq", 2) =>
       LET t == stack[Len(stack) - 1].t
       IN IF ret = t
            THEN stack' = SubSeq(stack, 1, Len(stack) - 1)
            ELSE Fails(TypeMismatchMessage(t, ret))

\* a == b for atomic a and b that have a type
IsTypedEq(e, c) ==
  /\ e.kind = "Eq"
  /\ e.left \in Atoms
  /\ e.right \in Atoms
  /\ AtomType(c, e.left) # Undefined
  /\ AtomType(c, e.right) # Undefined

\* a == b is a Boolean when a and b have one type, and fails with the
\* mismatch of a's type and b's type otherwise
EqOutcome ==
  \A k \in Inferred :
    IsTypedEq(expr, heap[ctx]) =>
      LET tl == AtomType(heap[ctx], expr.left)
          tr == AtomType(heap[ctx], expr.right)
      IN IF tl = tr
           THEN ~outcomes[k].threw /\ outcomes[k].value = Boolean
           ELSE /\ outcomes[k].threw
                /\ outcomes[k].message = TypeMismatchMessage(tl, tr)

\* C11: infer(ctx, Eq(l, r)) returns Boolean whenever l and r infer to
\* structurally equal types, of whatever shape, and fails with
\* TypeMismatch(type of l, type of r) when they infer to different types.
C11_EqRule == [](EqPremises /\ EqOutcome) /\ [][EqSteps]_vars

\* two operands of one function type were compared: a Boolean
C11_Witness ==
  /\ IsTypedEq(expr, heap[ctx])
  /\ IsObject(AtomType(heap[ctx], expr.left))
  /\ Inferred # {}
  /\ ~outcomes[1].threw
  /\ outcomes[1].value = Boolean

(***************************************************************************)
(* C12: the If rule.                                                       *)
(***************************************************************************)
\* the call an If has made: the condition checked against Boolean, the then
\* branch inferred, the else branch checked against the type kept for the
\* then branch, all under its own context
IfPremises ==
  \A i \in Calls :
    LET p == stack[i]
        c == stack[i + 1]
    IN p.fn = "infer" /\ p.expr.kind = "If"
       => /\ p.pc \in {1, 2, 3}
          /\ c.ctx = p.ctx
          /\ p.pc = 1 => /\ c.fn = "check"
                         /\ c.expr = p.expr.condition
                         /\ c.expectedType = Boolean
          /\ p.pc = 2 => c.fn = "infer" /\ c.expr = p.expr.thenBranch
          /\ p.pc = 3 => /\ c.fn = "check"
                         /\ c.expr = p.expr.elseBranch
                         /\ c.expectedType = p.t

\* a condition of another type than Boolean fails with the mismatch of
\* Boolean and its type; the type kept is the one the then branch returned;
\* an else branch of another type fails with the mismatch of the then type
\* and the else type; the If returns the then type
IfSteps ==
  /\ ComparingFor("If", 1) =>
       IF ret = Boolean
         THEN stack' = SubSeq(stack, 1, Len(stack) - 1)
         ELSE Fails(TypeMismatchMessage(Boolean, ret))
  /\ InferAt("If") /\ Top.pc = 2 => stack'[Len(stack)].t = ret
  /\ ComparingFor("If", 3) =>
       LET t == stack[Len(stack) - 1].t
       IN IF ret = t
            THEN stack' = SubSeq(stack, 1, Len(stack) - 1)
            ELSE Fails(TypeMismatchMessage(t, ret))
  /\ InferAt("If") /\ Top.pc = 3 => Returns(Top.t)

\* if c then a else b for atomic c, a and b that have a type
IsTypedIf(e, c) ==
  /\ e.kind = "If"
  /\ e.condition \in Atoms
  /\ e.thenBranch \in Atoms
  /\ e.elseBranch \in Atoms
  /\ AtomType(c, e.condition) # Undefined
  /\ AtomType(c, e.thenBranch) # Undefined
  /\ AtomType(c, e.elseBranch) # Undefined

\* the If has the type of its branches when the condition is a Boolean and
\* the branches have one type, and no type otherwise
IfOutcome ==
  \A k \in Inferred :
    IsTypedIf(expr, heap[ctx]) =>
      LET tc == AtomType(heap[ctx], expr.condition)
          tt == AtomType(heap[ctx], expr.thenBranch)
          te == AtomType(heap[ctx], expr.elseBranch)
      IN /\ ~outcomes[k].threw <=> tc = Boolean /\ tt = te
         /\ ~outcomes[k].threw => outcomes[k].value = tt
         /\ tc # Boolean => outcomes[k].message = TypeMismatchMessage(Boolean, tc)
         /\ tc = Boolean /\ tt # te => outcomes[k].message = TypeMismatchMessage(tt, te)

\* C12: infer(ctx, If(c, th, el)) succeeds only when c infers to Boolean
\* and th and el infer to equal types, and then returns the type of th; a
\* condition that is no Boolean fails with TypeMismatch(Boolean, type of
\* c), branches of different types with TypeMismatch(type of th, type of
\* el).
C12_IfRule == [](IfPremises /\ IfOutcome) /\ [][IfSteps]_vars

\* an If with a Boolean condition, a Number then branch and a function else
\* branch failed
C12_Witness ==
  /\ IsTypedIf(expr, heap[ctx])
  /\ AtomType(heap[ctx], expr.condition) = Boolean
  /\ AtomType(heap[ctx], expr.thenBranch) = Number
  /\ IsObject(AtomType(heap[ctx], expr.elseBranch))
  /\ Inferred # {}
  /\ outcomes[1].threw

(***************************************************************************)
(* C13: the Plus and Or rules.                                             *)
(***************************************************************************)
\* the type a node of this kind checks its operands against and returns
OperandType(kind) == IF kind = "Plus" THEN Number ELSE Boolean

\* the call a Plus or an Or has made: the left operand, then the right,
\* checked against the operand type under its own context
PlusOrPremises ==
  \A i \in Calls :
    LET p == stack[i]
        c == stack[i + 1]
    IN p.fn = "infer" /\ p.expr.kind \in {"Plus", "Or"}
       => /\ p.pc \in {1, 2}
          /\ c.ctx = p.ctx
          /\ c.fn = "check"
          /\ c.expectedType = OperandType(p.expr.kind)
          /\ p.pc = 1 => c.expr = p.expr.left
          /\ p.pc = 2 => c.expr = p.expr.right

\* an operand of another type fails with the mismatch of the operand type
\* and its type; the node returns the operand type
PlusOrSteps ==
  \A kind \in {"Plus", "Or"} :
    /\ ComparingFor(kind, 1) \/ ComparingFor(kind, 2) =>
         IF ret = OperandType(kind)
           THEN stack' = SubSeq(stack, 1, Len(stack) - 1)
           ELSE Fails(TypeMismatchMessage(OperandType(kind), ret))
    /\ InferAt(kind) /\ Top.pc = 2 => Returns(OperandType(kind))

\* a + b or a || b for atomic a and b that have a type
IsTypedPlusOr(e, c) ==
  /\ e.kind \in {"Plus", "Or"}
  /\ e.left \in Atoms
  /\ e.right \in Atoms
  /\ AtomType(c, e.left) # Undefined
  /\ AtomType(c, e.right) # Undefined

\* the node has the operand type iff both operands have it, and fails with
\* the mismatch of the first operand of another type otherwise
PlusOrOutcome ==
  \A k \in Inferred :
    IsTypedPlusOr(expr, heap[ctx]) =>
      LET t == OperandType(expr.kind)
          tl == AtomType(heap[ctx], expr.left)
          tr == AtomType(heap[ctx], expr.right)
      IN /\ ~outcomes[k].threw <=> tl = t /\ tr = t
         /\ ~outcomes[k].threw => outcomes[k].value = t
         /\ tl # t => outcomes[k].message = TypeMismatchMessage(t, tl)
         /\ tl = t /\ tr # t => outcomes[k].message = TypeMismatchMessage(t, tr)

\* C13: infer(ctx, Plus(l, r)) returns Number iff both operands infer to
\* Number, infer(ctx, Or(l, r)) returns Boolean iff both infer to Boolean;
\* an operand of any other type, a function type included, fails with
\* TypeMismatch(Number, actual) for Plus and TypeMismatch(Boolean, actual)
\* for Or.
C13_PlusOrRule == [](PlusOrPremises /\ PlusOrOutcome) /\ [][PlusOrSteps]_vars

\* an Or whose left operand is a Boolean and whose right operand is a
\* function failed
C13_Witness ==
  /\ IsTypedPlusOr(expr, heap[ctx])
  /\ expr.kind = "Or"
  /\ AtomType(heap[ctx], expr.left) = Boolean
  /\ IsObject(AtomType(heap[ctx], expr.right))
  /\ Inferred # {}
  /\ outcomes[1].threw
  /\ outcomes[1].message = TypeMismatchMessage(Boolean, AtomType(heap[ctx], expr.right))

(***************************************************************************)
(* C14: the premises of a rule are evaluated left to right, and the first  *)
(* that fails ends the top-level call.                                     *)
(***************************************************************************)
\* the children a node of this kind has its premises about, left to right
Premises(kind) ==
  CASE kind \in {"Plus", "Or", "Eq"} -> <<"left", "right">>
    [] kind = "If" -> <<"condition", "thenBranch", "elseBranch">>
    [] kind = "Call" -> <<"func", "arg">>
    [] kind = "Let" -> <<"e1", "e2">>
    [] kind = "LetFun" -> <<"functionBody", "letBody">>
    [] kind = "Fun" -> <<"body">>
    [] OTHER -> <<>>

\* the place of a child among the children of its parent
Rank(field) ==
  CASE field \in {"left", "condition", "func", "e1", "functionBody", "body"} -> 1
    [] field \in {"right", "thenBranch", "arg", "e2", "letBody"} -> 2
    [] field = "elseBranch" -> 3

Visited == {visits[i] : i \in DOMAIN visits}

\* the call number pc of a node is about its child number pc; a check is
\* about the node it was given
PremisesInOrder ==
  \A i \in Calls :
    LET p == stack[i]
        c == stack[i + 1]
    IN IF p.fn = "check"
         THEN c.fn = "infer" /\ c.node = p.node /\ c.expr = p.expr
         ELSE /\ p.pc \in DOMAIN Premises(p.expr.kind)
              /\ c.node = Child(p.node, Premises(p.expr.kind)[p.pc])
              /\ c.expr = p.expr[Premises(p.expr.kind)[p.pc]]

\* of a node that is being inferred, the children before the current one
\* have been inferred and the children after it have not
LaterChildrenNotInferred ==
  \A i \in DOMAIN stack :
    LET p == stack[i]
    IN p.fn = "infer" =>
         \A q \in DOMAIN Premises(p.expr.kind) :
           LET child == Child(p.node, Premises(p.expr.kind)[q])
           IN /\ q > p.pc => child \notin Visited
              /\ q < p.pc => child \in Visited

\* node a comes before node b when the tree is walked left to right, parents
\* before children
RECURSIVE Before(_, _)
Before(a, b) ==
  IF a = <<>> THEN b # <<>>
  ELSE IF b = <<>> THEN FALSE
  ELSE IF Head(a) = Head(b) THEN Before(Tail(a), Tail(b))
  ELSE Rank(Head(a)) < Rank(Head(b))

\* the nodes were inferred in the order of a walk from left to right
InferredLeftToRight ==
  \A i, j \in DOMAIN visits : i < j => Before(visits[i], visits[j])

\* the failure of infer(c, a) and of check(c, a, t) for an atom a, "" for
\* none
InferError(c, a) ==
  IF AtomType(c, a) = Undefined THEN UnboundVariableMessage(a.x) ELSE ""
CheckError(c, a, t) ==
  IF AtomType(c, a) = Undefined THEN UnboundVariableMessage(a.x)
  ELSE IF AtomType(c, a) # t THEN TypeMismatchMessage(t, AtomType(c, a))
  ELSE ""

\* the failure of the leftmost failing premise of a node over atoms, "" for
\* none: each premise is looked at only when those before it pass
LeftmostError(c, e) ==
  CASE e.kind \in {"Plus", "Or"} ->
         LET l == CheckError(c, e.left, OperandType(e.kind))
         IN IF l # "" THEN l ELSE CheckError(c, e.right, OperandType(e.kind))
    [] e.kind = "Eq" ->
         LET l == InferError(c, e.left)
         IN IF l # "" THEN l ELSE CheckError(c, e.right, AtomType(c, e.left))
    [] e.kind = "If" ->
         LET cond == CheckError(c, e.condition, Boolean)
             th == InferError(c, e.thenBranch)
         IN IF cond # "" THEN cond
            ELSE IF th # "" THEN th
            ELSE CheckError(c, e.elseBranch, AtomType(c, e.thenBranch))
    [] e.kind = "Call" ->
         LET f == InferError(c, e.func)
             tFun == AtomType(c, e.func)
         IN IF f # "" THEN f
            ELSE IF ~IsObject(tFun) THEN NotAFunctionMessage(tFun)
            ELSE CheckError(c, e.arg, tFun.tArg)
    [] e.kind = "Let" ->
         LET e1 == InferError(c, e.e1)
         IN IF e1 # "" THEN e1
            ELSE InferError([c EXCEPT ![e.x] = AtomType(c, e.e1)], e.e2)
    [] e.kind = "LetFun" ->
         LET tf == FunType(e.tx, e.tRet)
             body == CheckError([c EXCEPT ![e.f] = tf, ![e.x] = e.tx],
                                e.functionBody, e.tRet)
         IN IF body # "" THEN body
            ELSE InferError([c EXCEPT ![e.f] = tf], e.letBody)

\* a node with premises in order whose children are atoms
IsFlat(e) ==
  /\ e.kind \in {"Plus", "Or", "Eq", "If", "Call", "Let", "LetFun"}
  /\ \A q \in DOMAIN Premises(e.kind) : e[Premises(e.kind)[q]] \in Atoms

\* a node over atoms fails iff one of its premises fails, with the failure
\* of the leftmost one that fails
LeftmostErrorReported ==
  \A k \in Inferred :
    IsFlat(expr) =>
      LET message == LeftmostError(heap[ctx], expr)
      IN /\ outcomes[k].threw <=> message # ""
         /\ outcomes[k].threw => outcomes[k].message = message

\* a call is made for the premise after the one the last call was for; a
\* failure abandons every active call and infers nothing more
AbortSteps ==
  /\ Running /\ Len(stack') > Len(stack) => stack'[Len(stack)].pc = Top.pc + 1
  /\ Running /\ Len(outcomes') > Len(outcomes) /\ outcomes'[Len(outcomes')].threw
       => stack' = <<>> /\ visits' = visits
  /\ ~Running' => visits' = visits

\* C14: in every node rule the premises are evaluated left to right; the
\* first premise that fails ends the whole top-level call with its error
\* and no later child is inferred, so that of several failing children the
\* leftmost one's error is the one reported.
C14_FirstError ==
  /\ [](PremisesInOrder /\ LaterChildrenNotInferred /\ InferredLeftToRight
        /\ LeftmostErrorReported)
  /\ [][AbortSteps]_vars

\* Plus(Bool, Var(x)) with x unbound failed with the mismatch of its left
\* operand, and its right operand was not inferred
C14_Witness ==
  /\ expr = Plus(Bool, Var("x"))
  /\ heap[ctx]["x"] = Undefined
  /\ Inferred # {}
  /\ ~Running
  /\ outcomes[Len(outcomes)].message = TypeMismatchMessage(Number, Boolean)
  /\ visits = <<root, Child(root, "left")>>

(***************************************************************************)
(* C15: termination, each node inferred at most once.                      *)
(***************************************************************************)
\* the node object the fields of node lead to from e
RECURSIVE NodeAt(_, _)
NodeAt(e, node) ==
  IF node = <<>> THEN e ELSE NodeAt(e[Head(node)], Tail(node))

\* the number of nodes of a tree
RECURSIVE Size(_)
Size(e) ==
  LET fields == Premises(e.kind)
      sizes == [q \in DOMAIN fields |-> Size(e[fields[q]])]
  IN 1 + (IF Len(fields) >= 1 THEN sizes[1] ELSE 0)
       + (IF Len(fields) >= 2 THEN sizes[2] ELSE 0)
       + (IF Len(fields) >= 3 THEN sizes[3] ELSE 0)

\* every active call is about a node of the caller's tree
CallsAreOnNodes ==
  \A i \in DOMAIN stack : stack[i].expr = NodeAt(expr, stack[i].node)

\* no node was inferred twice in this top-level call, so that no more nodes
\* were inferred than the tree has
InferredAtMostOnce ==
  /\ \A i, j \in DOMAIN visits : i # j => visits[i] # visits[j]
  /\ Len(visits) <= Size(expr)

\* C15: for every finite tree and every context, infer and check
\* eventually finish, with a type or an error, and during one top-level
\* call each node of the tree is inferred at most once, the body of a
\* self-recursive LetFun included.
C15_Termination ==
  /\ [](CallsAreOnNodes /\ InferredAtMostOnce)
  /\ Running ~> ~Running

\* a self-recursive LetFun was given a type, its function body inferred
\* once
C15_Witness ==
  /\ IsRecTree(expr)
  /\ ~Running
  /\ outcomes # <<>>
  /\ ~outcomes[Len(outcomes)].threw
  /\ \E i \in DOMAIN visits : visits[i] = Child(root, "functionBody")

====
